---- MODULE Spec2Model ----
(***************************************************************************)
(* Real-time presence and messaging gateway of the hiring platform         *)
(* backend (server.js) together with the REST handlers that persist and    *)
(* fan out notifications (routes/notification.js, routes/projects.js,      *)
(* routes/admin.js).                                                       *)
(*                                                                         *)
(* One action per handler segment.  A handler that awaits the document     *)
(* store is cut at the await when another handler can observe the gap      *)
(* (sendMessage); the events an action emits are collected in `out`, with  *)
(* the connections that receive each one, and `last` names the operation   *)
(* that produced them.                                                     *)
(***************************************************************************)
EXTENDS Integers, Sequences, FiniteSets, TLC

(* ------------------------------ bounds -------------------------------- *)
MaxConns == 3
MaxMessages == 1
MaxNotifs == 1
FanoutConns == 2

(* ------------------------------ values -------------------------------- *)
None == "none"

\* ids that are well-formed ObjectIds; "u0" never has a user record
UserIds == {"u1", "u2", "u3"}
GhostId == "u0"
ObjectIds == UserIds \cup {GhostId}
BadId == "not-an-object-id"

Email(u) == CASE u = "u1" -> "u1@mail" [] u = "u2" -> "u2@mail"
              [] u = "u3" -> "u3@mail" [] OTHER -> None
Name(u) == CASE u = "u1" -> "Super Admin" [] u = "u2" -> "Cleo"
              [] u = "u3" -> "Dev" [] OTHER -> None

\* text is a sequence of characters
\* a field the client left out (undefined)
Missing == <<"undefined">>

\* String.prototype.trim, as the schemas' `trim: true` setter applies it
RECURSIVE TrimLeft(_)
TrimLeft(s) == IF s # <<>> /\ Head(s) = " " THEN TrimLeft(Tail(s)) ELSE s
RECURSIVE TrimRight(_)
TrimRight(s) == IF s # <<>> /\ s[Len(s)] = " " THEN TrimRight(SubSeq(s, 1, Len(s) - 1)) ELSE s
Trim(s) == TrimRight(TrimLeft(s))

\* gateway: whether the server process runs; broadcasts: the records carried by
\* the receiveMessage events emitted so far (what clients have been shown)
VARIABLES users, conns, onlineUsers, messages, tasks, notifications, notifSeq,
          projects, out, last, gateway, broadcasts, requirements, hires
vars == <<users, conns, onlineUsers, messages, tasks, notifications, notifSeq,
          projects, out, last, gateway, broadcasts, requirements, hires>>

(* ----------------------- credentials (jwt) ---------------------------- *)
\* process.env.JWT_SECRET, process.env.SOCKET_SECRET
JWT_SECRET == "J"
SOCKET_SECRET_ENV == "S"
SOCKET_SECRET == IF SOCKET_SECRET_ENV = None THEN JWT_SECRET ELSE SOCKET_SECRET_ENV

Keys == {"S", "J", "X"}
Tokens == [sub : ObjectIds, key : Keys, expired : BOOLEAN]
\* no token presented (undefined / null / empty)
NoToken == [sub |-> None, key |-> None, expired |-> FALSE]

\* mutant: the expiry is not checked
jwtVerify_IgnoreExpiry(token, secret) == token.key = secret
\* jwt.verify(token, secret): signature under `secret` and not expired
jwtVerify(token, secret) == token.key = secret /\ ~token.expired

\* the token a handshake presents: handshake.auth.token, else the cookie's
\* socketToken, else the cookie's token
HandshakeToken(h) ==
  IF h.auth # NoToken THEN h.auth
  ELSE IF h.socketToken # NoToken THEN h.socketToken
  ELSE h.token

\* POST /api/auth/login: the two credentials it issues for user u
LoginToken(u) == [sub |-> u, key |-> JWT_SECRET, expired |-> FALSE]
LoginSocketToken(u) == [sub |-> u, key |-> SOCKET_SECRET, expired |-> FALSE]

\* mutant: no fallback to JWT_SECRET
VerifiesAny_SocketOnly(token) == jwtVerify(token, SOCKET_SECRET)

\* try SOCKET_SECRET, then fall back to JWT_SECRET
VerifiesAny(token) == jwtVerify(token, SOCKET_SECRET) \/ jwtVerify(token, JWT_SECRET)

UserExists(id) == id \in UserIds /\ users[id].exists

\* outcome of the socket auth middleware: "ok" or the Error it passes to next()
MiddlewareResult(token, dbOk) ==
  IF token = NoToken THEN "No socket token"
  ELSE IF ~VerifiesAny(token) THEN "Invalid socket token"
  ELSE IF ~dbOk THEN "Socket auth failed"
  ELSE IF ~UserExists(token.sub) THEN "User not found"
  ELSE "ok"

(* --------------------------- rooms and emits -------------------------- *)
\* mutant: the email-derived room is joined as well
JoinedRooms_WithEmail(userId) == {userId, Email(userId)}
\* rooms the middleware joins for an admitted user
JoinedRooms(userId) == {userId}

\* handlers attached by io.on("connection")
AttachedHandlers == {"sendMessage", "disconnect"}

\* mutant: only the most recently connected socket of the room
RoomMembers_MostRecent(cs, room) ==
  {c \in DOMAIN cs : room \in cs[c].rooms /\ \A d \in DOMAIN cs : room \in cs[d].rooms => d <= c}
\* io.to(room): every socket enrolled in the room
RoomMembers(cs, room) == {c \in DOMAIN cs : room \in cs[c].rooms}
\* io.emit: every connected socket of the namespace
AllSockets(cs) == {c \in DOMAIN cs : cs[c].st = "live"}

EmitTo(cs, room, ev, payload) ==
  [ev |-> ev, room |-> room, payload |-> payload, rcpts |-> RoomMembers(cs, room)]
EmitAll(cs, ev, payload) ==
  [ev |-> ev, room |-> "*", payload |-> payload, rcpts |-> AllSockets(cs)]

NoLast == [op |-> "init", conn |-> 0, user |-> None, req |-> None, status |-> None]

(* ------------------------------ Init ---------------------------------- *)
InitUsers ==
  [u \in UserIds |->
     [exists |-> TRUE,
      role |-> CASE u = "u1" -> "superadmin" [] u = "u2" -> "client" [] OTHER -> "developer"]]

\* one ongoing project of client u2 with developer u3
InitProjects ==
  {[id |-> "p1", client |-> "u2", developer |-> "u3", title |-> "Shop", status |-> "ongoing"]}

\* ids of the requirements and hire requests, all well-formed ObjectIds; "r0"
\* and "h0" never have a record
RequirementIds == {"r1"}
GhostRequirement == "r0"
HireIds == {"h1"}
GhostHire == "h0"

\* one pending requirement posted by client u2, no developer assigned
InitRequirements ==
  [r \in RequirementIds |->
     [status |-> "pending", client |-> "u2", developer |-> None, title |-> "Site"]]

\* one pending hire request of client u2 to developer u3
InitHires ==
  [h \in HireIds |->
     [status |-> "pending", clientEmail |-> "u2@mail", developerEmail |-> "u3@mail",
      projectTitle |-> "App", requirements |-> "text"]]

Init ==
  /\ users = InitUsers
  /\ conns = <<>>
  /\ onlineUsers = [u \in UserIds |-> 0]
  /\ messages = <<>>
  /\ tasks = {}
  /\ notifications = {}
  /\ notifSeq = 0
  /\ projects = InitProjects
  /\ out = <<>>
  /\ last = NoLast
  /\ gateway = "up"
  /\ broadcasts = {}
  /\ requirements = InitRequirements
  /\ hires = InitHires

(* ---------------------------- connection ------------------------------ *)
\* io.on("connection"): presence entry written for the admitted socket
MarkOnline(reg, userId, c) == [reg EXCEPT ![userId] = c]
\* events the connection handler emits for the admitted socket c of userId
ConnectEmits(cs, reg, userId, c) == <<EmitAll(cs, "userOnline", [userId |-> userId])>>

\* handshakes: a token in handshake.auth, or none there and the cookie header's
\* socketToken / token fields (no cookie header = both fields absent)
CookieSamples ==
  {[socketToken |-> [sub |-> "u2", key |-> "S", expired |-> FALSE], token |-> NoToken],
   [socketToken |-> NoToken, token |-> [sub |-> "u3", key |-> "J", expired |-> FALSE]],
   [socketToken |-> [sub |-> "u1", key |-> "X", expired |-> FALSE],
    token |-> [sub |-> "u1", key |-> "J", expired |-> FALSE]]}
Handshakes ==
  {[auth |-> a, socketToken |-> NoToken, token |-> NoToken] : a \in Tokens \cup {NoToken}}
    \cup {[auth |-> NoToken, socketToken |-> k.socketToken, token |-> k.token] : k \in CookieSamples}

\* io.use(...) followed, when admitted, by io.on("connection")
Connect(h, dbOk) ==
  LET c == Len(conns) + 1
      token == HandshakeToken(h)
      res == MiddlewareResult(token, dbOk)
      userId == token.sub
      admitted == [st |-> "live", user |-> userId, rooms |-> JoinedRooms(userId),
                   handlers |-> AttachedHandlers]
      refused == [st |-> "rejected", user |-> None, rooms |-> {}, handlers |-> {}]
  IN /\ Len(conns) < MaxConns
     /\ IF res = "ok"
        THEN /\ conns' = Append(conns, admitted)
             /\ onlineUsers' = MarkOnline(onlineUsers, userId, c)
             /\ out' = ConnectEmits(conns', onlineUsers, userId, c)
        ELSE /\ conns' = Append(conns, refused)
             /\ onlineUsers' = onlineUsers
             /\ out' = <<>>
     /\ last' = [op |-> "connect", conn |-> c, user |-> None,
                 req |-> [token |-> token, dbOk |-> dbOk], status |-> res]
     /\ gateway = "up"
     /\ UNCHANGED <<requirements, hires>>
     /\ UNCHANGED <<users, messages, tasks, notifications, notifSeq, projects, gateway, broadcasts>>

\* socket.on("disconnect"): presence entry after socket c of userId closed
MarkOffline(reg, cs, userId, c) == [reg EXCEPT ![userId] = 0]
\* events the disconnect handler emits
DisconnectEmits(cs, reg, userId, c) == <<EmitAll(cs, "userOffline", [userId |-> userId])>>

Disconnect(c) ==
  /\ c \in DOMAIN conns
  /\ conns[c].st = "live"
  /\ "disconnect" \in conns[c].handlers
  /\ LET userId == conns[c].user
     IN /\ conns' = [conns EXCEPT ![c] = [st |-> "closed", user |-> userId,
                                         rooms |-> {}, handlers |-> {}]]
        /\ onlineUsers' = MarkOffline(onlineUsers, conns', userId, c)
        /\ out' = DisconnectEmits(conns', onlineUsers, userId, c)
        /\ last' = [op |-> "disconnect", conn |-> c, user |-> userId,
                    req |-> None, status |-> "ok"]
  /\ gateway = "up"
  /\ UNCHANGED <<requirements, hires>>
  /\ UNCHANGED <<users, messages, tasks, notifications, notifSeq, projects, gateway, broadcasts>>

(* ----------------------------- sendMessage ---------------------------- *)
\* mutant: the schema requires nothing
MessageValid_Nothing(to, message) == TRUE

\* MessageSchema validation of {sender, receiver: to, message}: both refs
\* castable and present, message present and non-empty once trimmed
MessageValid(to, message) ==
  /\ to \in ObjectIds
  /\ message # Missing
  /\ Trim(message) # <<>>

\* mutant: a message is created already marked delivered
NewMessage_Delivered(id, sender, to, message) ==
  [id |-> id, sender |-> sender, receiver |-> to, message |-> Trim(message),
   delivered |-> TRUE, read |-> FALSE]

\* the document Message.create stores
NewMessage(id, sender, to, message) ==
  [id |-> id, sender |-> sender, receiver |-> to, message |-> Trim(message),
   delivered |-> FALSE, read |-> FALSE]

\* .populate(path, "name _id")
Populate(id) == IF UserExists(id) THEN [_id |-> id, name |-> Name(id)]
                ELSE [_id |-> None, name |-> None]

\* Message.findById(id).populate("sender").populate("receiver").lean()
FindMessagePopulated(id) ==
  LET m == messages[id]
  IN [id |-> m.id, sender |-> Populate(m.sender), receiver |-> Populate(m.receiver),
      message |-> m.message, delivered |-> m.delivered, read |-> m.read]

\* mutant: the receiver's copy keeps the tempId
ReceiverPayload_WithTempId(saved, tempId) == [msg |-> saved, tempId |-> tempId]
\* payloads of the two receiveMessage emits
ReceiverPayload(saved, tempId) == [msg |-> saved, tempId |-> None]
\* mutant: the sender's echo is built without the populated receiver
SenderPayload_NoReceiver(saved, tempId) ==
  [msg |-> [saved EXCEPT !.receiver = [_id |-> None, name |-> None]], tempId |-> tempId]
SenderPayload(saved, tempId) == [msg |-> saved, tempId |-> tempId]

\* the two emits of a sendMessage, in order: receiver's room, sender's room
SendMessageEmits(cs, to, userId, saved, tempId) ==
  <<EmitTo(cs, to, "receiveMessage", ReceiverPayload(saved, tempId)),
    EmitTo(cs, userId, "receiveMessage", SenderPayload(saved, tempId))>>

\* socket.on("sendMessage") up to the resolution of Message.create
SendMessage(c, p, dbOk) ==
  /\ c \in DOMAIN conns
  /\ conns[c].st = "live"
  /\ "sendMessage" \in conns[c].handlers
  /\ LET userId == conns[c].user
         ok == MessageValid(p.to, p.message) /\ dbOk
         id == Len(messages) + 1
     IN /\ ok => Len(messages) < MaxMessages
        /\ IF ok
           THEN /\ messages' = Append(messages, NewMessage(id, userId, p.to, p.message))
                /\ tasks' = tasks \cup {[conn |-> c, userId |-> userId, to |-> p.to,
                                         tempId |-> p.tempId, msgId |-> id]}
           ELSE UNCHANGED <<messages, tasks>>
        /\ last' = [op |-> "sendMessage", conn |-> c, user |-> userId,
                    req |-> [to |-> p.to, message |-> p.message, tempId |-> p.tempId],
                    status |-> IF ok THEN "created" ELSE "error"]
  /\ out' = <<>>
  /\ gateway = "up"
  /\ UNCHANGED <<requirements, hires>>
  /\ UNCHANGED <<users, conns, onlineUsers, notifications, notifSeq, projects, gateway, broadcasts>>

\* mutant: the two emits go out although the re-read failed
SendMessageDeliver_EmitOnError(t, dbOk) ==
  /\ t \in tasks
  /\ tasks' = tasks \ {t}
  /\ out' = SendMessageEmits(conns, t.to, t.userId, FindMessagePopulated(t.msgId), t.tempId)
  /\ broadcasts' = broadcasts \cup {FindMessagePopulated(t.msgId)}
  /\ last' = [op |-> "deliver", conn |-> t.conn, user |-> t.userId,
              req |-> [to |-> t.to, tempId |-> t.tempId, msgId |-> t.msgId, dbOk |-> dbOk],
              status |-> IF dbOk THEN "emitted" ELSE "error"]
  /\ gateway = "up"
  /\ UNCHANGED <<requirements, hires>>
  /\ UNCHANGED <<users, conns, onlineUsers, messages, notifications, notifSeq, projects, gateway>>

\* the rest of the handler: the re-read resolves, then the two emits
SendMessageDeliver(t, dbOk) ==
  /\ t \in tasks
  /\ tasks' = tasks \ {t}
  /\ IF dbOk
     THEN /\ out' = SendMessageEmits(conns, t.to, t.userId, FindMessagePopulated(t.msgId),
                                     t.tempId)
          /\ broadcasts' = broadcasts \cup {FindMessagePopulated(t.msgId)}
     ELSE /\ out' = <<>>
          /\ broadcasts' = broadcasts
  /\ last' = [op |-> "deliver", conn |-> t.conn, user |-> t.userId,
              req |-> [to |-> t.to, tempId |-> t.tempId, msgId |-> t.msgId, dbOk |-> dbOk],
              status |-> IF dbOk THEN "emitted" ELSE "error"]
  /\ gateway = "up"
  /\ UNCHANGED <<requirements, hires>>
  /\ UNCHANGED <<users, conns, onlineUsers, messages, notifications, notifSeq, projects, gateway>>

\* a sendMessage event whose argument is no object: absent, null, or a primitive
RawArgs == {"undefined", "null", "number", "string"}

\* the handler's parameter pattern ({ to, message, tempId }) throws a TypeError
\* on undefined and null; on a primitive every field comes out undefined
DestructureThrows(arg) == arg \in {"undefined", "null"}

\* the TypeError is raised before the handler's try block is entered, so the
\* async handler's promise rejects and nothing awaits it.  What the runtime
\* then does is its unhandled-rejections mode: "throw" ends the process,
\* "warn" prints a warning
UnhandledRejectionModes == {"throw", "warn"}

\* the process ends: every socket is gone, and so is everything held in memory
ProcessExit ==
  /\ gateway' = "down"
  /\ conns' = [c \in DOMAIN conns |->
                 IF conns[c].st = "live"
                 THEN [conns[c] EXCEPT !.st = "closed", !.rooms = {}, !.handlers = {}]
                 ELSE conns[c]]
  /\ onlineUsers' = [u \in UserIds |-> 0]
  /\ tasks' = {}

\* socket.on("sendMessage") invoked with an argument that is no object
SendMessageRaw(c, arg, mode) ==
  /\ gateway = "up"
  /\ UNCHANGED <<requirements, hires>>
  /\ c \in DOMAIN conns
  /\ conns[c].st = "live"
  /\ "sendMessage" \in conns[c].handlers
  /\ IF DestructureThrows(arg) /\ mode = "throw"
     THEN ProcessExit
     ELSE UNCHANGED <<conns, onlineUsers, tasks, gateway>>
  /\ last' = [op |-> "sendMessage", conn |-> c, user |-> conns[c].user,
              req |-> [to |-> None, message |-> Missing, tempId |-> None, arg |-> arg],
              status |-> IF ~DestructureThrows(arg) THEN "error"
                         ELSE IF mode = "throw" THEN "exit" ELSE "unhandledRejection"]
  /\ out' = <<>>
  /\ UNCHANGED <<users, messages, notifications, notifSeq, projects, broadcasts>>

\* sendMessage payloads: well-formed ones (some needing the trim), and ones
\* with `to` or `message` absent, empty, blank or not an id
TempIds == {None, "t1"}
GoodPayloads == [to : {"u1", "u2", GhostId}, message : {<<"a">>, <<" ", "b">>}, tempId : TempIds]
BadPayloads ==
  [to : {BadId, None}, message : {<<"a">>}, tempId : {"t1"}]
    \cup [to : {"u2"}, message : {Missing, <<>>, <<" ">>}, tempId : {"t1"}]
Payloads == GoodPayloads \cup BadPayloads
\* a payload, and whether the document store answers the create
SendRequests ==
  {[p |-> p, dbOk |-> TRUE] : p \in Payloads}
    \cup {[p |-> p, dbOk |-> FALSE] : p \in {q \in GoodPayloads : q.tempId = "t1" /\ q.to = "u2"}}

(* ------------------------- REST: the caller ---------------------------- *)
\* process.env.SUPER_ADMIN_EMAIL
SUPER_ADMIN_EMAIL == "u1@mail"

\* req.user.role as authMiddleware normalises it
CallerRole(u) ==
  IF users[u].role = "superadmin" \/ Email(u) = SUPER_ADMIN_EMAIL THEN "superadmin"
  ELSE users[u].role

\* requireAdmin
IsAdminCaller(u) == CallerRole(u) \in {"admin", "superadmin"}

Roles == {"developer", "client", "admin", "superadmin"}

(* ----------------------------- notifications -------------------------- *)
NotificationTypes == {"project", "requirement", "review", "system", "message"}

\* notificationSchema validation: user required and castable, message required
\* and non-empty once trimmed, type within the enum
NotificationValid(doc) ==
  /\ doc.user \in ObjectIds
  /\ doc.message # Missing
  /\ Trim(doc.message) # <<>>
  /\ doc.type \in NotificationTypes

\* the document Notification.create stores
NewNotification(id, doc) ==
  [id |-> id, user |-> doc.user, userEmail |-> doc.userEmail, message |-> Trim(doc.message),
   type |-> doc.type, read |-> doc.read]

\* mutant: the notification is created already read
PostNotificationDoc_Read(caller, b) ==
  [user |-> b.user, userEmail |-> Email(caller), message |-> b.message,
   type |-> IF b.type = None THEN "system" ELSE b.type, read |-> TRUE]

\* POST /api/notifications: what the handler hands to Notification.create
PostNotificationDoc(caller, b) ==
  [user |-> b.user, userEmail |-> Email(caller), message |-> b.message,
   type |-> IF b.type = None THEN "system" ELSE b.type, read |-> FALSE]

\* POST /api/notifications: the response status
PostNotificationStatus(caller, b, dbOk) ==
  IF b.user = None \/ b.user \notin ObjectIds THEN "400"
  ELSE IF b.message = Missing \/ b.message = <<>> THEN "400"
  ELSE IF ~NotificationValid(PostNotificationDoc(caller, b)) \/ ~dbOk THEN "500"
  ELSE "200"

\* mutant: the request's fields are emitted, not the stored document
PostNotificationEmits_Unsaved(cs, targetUserId, n) ==
  <<[ev |-> "notification:new", room |-> targetUserId, payload |-> [n EXCEPT !.id = 0],
     rcpts |-> {c \in DOMAIN cs : targetUserId \in cs[c].rooms}],
    [ev |-> "admin:notification:new", room |-> "*",
     payload |-> [notification |-> n, to |-> targetUserId],
     rcpts |-> {c \in DOMAIN cs : cs[c].st = "live"}]>>

\* POST /api/notifications: the emits after the create
PostNotificationEmits(cs, targetUserId, n) ==
  <<EmitTo(cs, targetUserId, "notification:new", n),
    EmitAll(cs, "admin:notification:new", [notification |-> n, to |-> targetUserId])>>

PostNotification(caller, b, dbOk) ==
  /\ UserExists(caller)
  /\ LET code == PostNotificationStatus(caller, b, dbOk)
         n == NewNotification(notifSeq + 1, PostNotificationDoc(caller, b))
     IN /\ code = "200" => notifSeq < MaxNotifs
        /\ IF code = "200"
           THEN /\ notifications' = notifications \cup {n}
                /\ notifSeq' = notifSeq + 1
                /\ out' = PostNotificationEmits(conns, b.user, n)
           ELSE /\ UNCHANGED <<notifications, notifSeq>>
                /\ out' = <<>>
        /\ last' = [op |-> "postNotification", conn |-> 0, user |-> caller,
                    req |-> [user |-> b.user, message |-> b.message, type |-> b.type,
                             dbOk |-> dbOk],
                    status |-> code]
  /\ gateway = "up"
  /\ UNCHANGED <<requirements, hires>>
  /\ UNCHANGED <<users, conns, onlineUsers, messages, tasks, projects, gateway, broadcasts>>

\* .sort({ createdAt: -1 }): newest first (ids grow with creation)
RECURSIVE SortByCreatedDesc(_)
SortByCreatedDesc(S) ==
  IF S = {} THEN <<>>
  ELSE LET newest == CHOOSE n \in S : \A m \in S : m.id <= n.id
       IN <<newest>> \o SortByCreatedDesc(S \ {newest})

\* .skip(skip).limit(limit)
SkipLimit(seq, skip, limit) ==
  LET hi == IF skip + limit < Len(seq) THEN skip + limit ELSE Len(seq)
  IN SubSeq(seq, skip + 1, hi)

DefaultLimit == 20

\* GET /api/notifications: the `notifications` array of the response
GetNotificationsResult(caller, q) ==
  LET page == IF q.page = 0 THEN 1 ELSE q.page
      limit == IF q.limit = 0 THEN DefaultLimit ELSE q.limit
      skip == (page - 1) * limit
  IN SkipLimit(SortByCreatedDesc({n \in notifications : n.user = caller}), skip, limit)

GetNotifications(caller, q) ==
  /\ UserExists(caller)
  /\ last' = [op |-> "getNotifications", conn |-> 0, user |-> caller, req |-> q,
              status |-> "200", resp |-> GetNotificationsResult(caller, q)]
  /\ out' = <<>>
  /\ gateway = "up"
  /\ UNCHANGED <<requirements, hires>>
  /\ UNCHANGED <<users, conns, onlineUsers, messages, tasks, notifications, notifSeq, projects, gateway, broadcasts>>

(* ------------------------ PUT /api/projects/:id/complete -------------- *)
CompletedClientText == <<"Your project has been completed">>
CompletedDevText == <<"You have marked project as completed">>

\* the five emits of the complete handler, in order
CompleteEmits(cs, client, developer, clientNotif, devNotif) ==
  <<EmitTo(cs, client, "notification:new", clientNotif),
    EmitTo(cs, Email(client), "notification:new", clientNotif),
    EmitTo(cs, developer, "notification:new", devNotif),
    EmitTo(cs, Email(developer), "notification:new", devNotif),
    EmitAll(cs, "admin:notification", clientNotif)>>

\* how far the handler gets: a response status and the writes done before it
\* failAt names the store call that fails, if any: "save", "client", "dev"
CompleteOutcome(caller, pid, failAt) ==
  LET ps == {p \in projects : p.id = pid}
      p == CHOOSE q \in ps : TRUE
  IN IF ps = {} THEN [code |-> "404", saved |-> FALSE, made |-> 0]
     ELSE IF ~UserExists(p.developer) \/ p.developer # caller
       THEN [code |-> "403", saved |-> FALSE, made |-> 0]
     ELSE IF failAt = "save" THEN [code |-> "500", saved |-> FALSE, made |-> 0]
     ELSE IF ~UserExists(p.client) \/ failAt = "client"
       THEN [code |-> "500", saved |-> TRUE, made |-> 0]
     ELSE IF failAt = "dev" THEN [code |-> "500", saved |-> TRUE, made |-> 1]
     ELSE [code |-> "200", saved |-> TRUE, made |-> 2]

CompleteProject(caller, pid, failAt) ==
  /\ UserExists(caller)
  /\ LET r == CompleteOutcome(caller, pid, failAt)
         p == CHOOSE q \in projects : q.id = pid
         clientNotif == NewNotification(notifSeq + 1,
                          [user |-> p.client, userEmail |-> Email(p.client),
                           message |-> CompletedClientText, type |-> "project", read |-> FALSE])
         devNotif == NewNotification(notifSeq + 2,
                          [user |-> p.developer, userEmail |-> Email(p.developer),
                           message |-> CompletedDevText, type |-> "project", read |-> FALSE])
     IN /\ r.made > 0 => notifSeq < MaxNotifs
        /\ projects' = IF r.saved
                       THEN (projects \ {p}) \cup {[p EXCEPT !.status = "completed"]}
                       ELSE projects
        /\ notifications' = notifications \cup
                              (IF r.made >= 1 THEN {clientNotif} ELSE {}) \cup
                              (IF r.made >= 2 THEN {devNotif} ELSE {})
        /\ notifSeq' = notifSeq + r.made
        /\ out' = IF r.code = "200"
                  THEN CompleteEmits(conns, p.client, p.developer, clientNotif, devNotif)
                  ELSE <<>>
        /\ last' = [op |-> "completeProject", conn |-> 0, user |-> caller,
                    req |-> [id |-> pid, failAt |-> failAt], status |-> r.code]
  /\ gateway = "up"
  /\ UNCHANGED <<requirements, hires>>
  /\ UNCHANGED <<users, conns, onlineUsers, messages, tasks, gateway, broadcasts>>

(* ------------------------------ admin.js ------------------------------ *)
\* pushNotification: the document it hands to Notification.create, given the
\* user store `us` it looks the email up in
PushNotificationDoc(us, email, message) ==
  LET owners == {u \in UserIds : us[u].exists /\ Email(u) = email}
  IN [user |-> IF owners = {} THEN None ELSE CHOOSE u \in owners : TRUE,
      userEmail |-> email, message |-> message, type |-> "system", read |-> FALSE]

\* pushNotification: its emit after the create
PushNotificationEmits(cs, email, message) ==
  <<EmitAll(cs, "notification:new", [userEmail |-> email, message |-> message])>>

\* pushNotification resolves (TRUE) or throws (FALSE)
PushNotificationOk(us, email, message, dbOk) ==
  NotificationValid(PushNotificationDoc(us, email, message)) /\ dbOk

PromotedText == <<"You have been promoted to Admin">>
RoleModifiedText == <<"Your admin role was modified">>
AccountDeletedText == <<"Your account was deleted">>
ProjectDeletedText == <<"Your project was deleted by admin.">>

\* the text update-role hands to pushNotification
RoleText(role) == IF role = "admin" THEN PromotedText ELSE RoleModifiedText

AdminCount == Cardinality({u \in UserIds : users[u].exists /\ users[u].role = "admin"})

\* PUT /api/admin/users/update-role: response status and the writes done;
\* failAt names the store call that fails, if any: "save", "notify"
UpdateRoleOutcome(caller, b, failAt) ==
  LET no(code) == [code |-> code, saved |-> FALSE, notified |-> FALSE]
  IN IF ~IsAdminCaller(caller) THEN no("403")
     ELSE IF b.id = None \/ b.role = None THEN no("400")
     ELSE IF b.id \notin ObjectIds THEN no("500")
     ELSE IF ~UserExists(b.id) THEN no("404")
     ELSE IF users[b.id].role = "superadmin" \/ Email(b.id) = SUPER_ADMIN_EMAIL THEN no("403")
     ELSE IF CallerRole(caller) # "superadmin" THEN no("403")
     ELSE IF users[b.id].role = "admin" /\ b.role # "admin" /\ AdminCount <= 1 THEN no("400")
     ELSE IF b.role \notin Roles \/ failAt = "save" THEN no("500")
     ELSE IF ~PushNotificationOk([users EXCEPT ![b.id].role = b.role], Email(b.id),
                                 RoleText(b.role), failAt # "notify")
       THEN [code |-> "500", saved |-> TRUE, notified |-> FALSE]
     ELSE [code |-> "200", saved |-> TRUE, notified |-> TRUE]

UpdateRoleEmits(cs, us, id, text) ==
  PushNotificationEmits(cs, Email(id), text)
    \o <<EmitAll(cs, "user:updated",
                 [_id |-> id, name |-> Name(id), email |-> Email(id), role |-> us[id].role])>>

AdminUpdateRole(caller, b, failAt) ==
  /\ UserExists(caller)
  /\ LET r == UpdateRoleOutcome(caller, b, failAt)
         text == RoleText(b.role)
         n == NewNotification(notifSeq + 1, PushNotificationDoc(users', Email(b.id), text))
     IN /\ r.notified => notifSeq < MaxNotifs
        /\ users' = IF r.saved THEN [users EXCEPT ![b.id].role = b.role] ELSE users
        /\ IF r.notified
           THEN /\ notifications' = notifications \cup {n}
                /\ notifSeq' = notifSeq + 1
                /\ out' = UpdateRoleEmits(conns, users', b.id, text)
           ELSE /\ UNCHANGED <<notifications, notifSeq>>
                /\ out' = <<>>
        /\ last' = [op |-> "adminUpdateRole", conn |-> 0, user |-> caller,
                    req |-> [id |-> b.id, role |-> b.role, failAt |-> failAt],
                    status |-> r.code]
  /\ gateway = "up"
  /\ UNCHANGED <<requirements, hires>>
  /\ UNCHANGED <<conns, onlineUsers, messages, tasks, projects, gateway, broadcasts>>

\* PUT /api/admin/users/update-role, its reads: the status it refuses with, or
\* None when every check up to countDocuments has passed
UpdateRoleRefusal(caller, b) ==
  IF ~IsAdminCaller(caller) THEN "403"
  ELSE IF b.id = None \/ b.role = None THEN "400"
  ELSE IF b.id \notin ObjectIds THEN "500"
  ELSE IF ~UserExists(b.id) THEN "404"
  ELSE IF users[b.id].role = "superadmin" \/ Email(b.id) = SUPER_ADMIN_EMAIL THEN "403"
  ELSE IF CallerRole(caller) # "superadmin" THEN "403"
  ELSE IF users[b.id].role = "admin" /\ b.role # "admin" /\ AdminCount <= 1 THEN "400"
  ELSE None

\* a request of update-role that has passed its checks and is suspended at
\* `await target.save()`
RoleTask(caller, b) == [op |-> "updateRole", caller |-> caller, id |-> b.id, role |-> b.role]

\* PUT /api/admin/users/update-role up to the resolution of countDocuments
AdminUpdateRoleCheck(caller, b) ==
  /\ UserExists(caller)
  /\ LET code == UpdateRoleRefusal(caller, b)
     IN /\ tasks' = IF code = None THEN tasks \cup {RoleTask(caller, b)} ELSE tasks
        /\ last' = [op |-> "adminUpdateRoleCheck", conn |-> 0, user |-> caller,
                    req |-> [id |-> b.id, role |-> b.role],
                    status |-> IF code = None THEN "checked" ELSE code]
  /\ out' = <<>>
  /\ gateway = "up"
  /\ UNCHANGED <<requirements, hires>>
  /\ UNCHANGED <<users, conns, onlineUsers, messages, notifications, notifSeq, projects,
                 gateway, broadcasts>>

\* the rest of update-role: target.role = role, save, pushNotification, emit
AdminUpdateRoleSave(t, failAt) ==
  /\ t \in tasks
  /\ DOMAIN t = {"op", "caller", "id", "role"}
  /\ tasks' = tasks \ {t}
  /\ LET saved == t.role \in Roles /\ failAt # "save"
         text == RoleText(t.role)
         notified == saved /\ PushNotificationOk([users EXCEPT ![t.id].role = t.role],
                                                 Email(t.id), text, failAt # "notify")
         n == NewNotification(notifSeq + 1, PushNotificationDoc(users', Email(t.id), text))
     IN /\ notified => notifSeq < MaxNotifs
        /\ users' = IF saved THEN [users EXCEPT ![t.id].role = t.role] ELSE users
        /\ IF notified
           THEN /\ notifications' = notifications \cup {n}
                /\ notifSeq' = notifSeq + 1
                /\ out' = UpdateRoleEmits(conns, users', t.id, text)
           ELSE /\ UNCHANGED <<notifications, notifSeq>>
                /\ out' = <<>>
        /\ last' = [op |-> "adminUpdateRoleSave", conn |-> 0, user |-> t.caller,
                    req |-> [id |-> t.id, role |-> t.role, failAt |-> failAt],
                    status |-> IF notified THEN "200" ELSE "500"]
  /\ gateway = "up"
  /\ UNCHANGED <<requirements, hires>>
  /\ UNCHANGED <<conns, onlineUsers, messages, projects, gateway, broadcasts>>

\* DELETE /api/admin/users/:id: the response status (the user is removed on "200")
DeleteUserStatus(caller, id, dbOk) ==
  IF ~IsAdminCaller(caller) THEN "403"
  ELSE IF id \notin ObjectIds THEN "500"
  ELSE IF ~UserExists(id) THEN "404"
  ELSE IF users[id].role = "superadmin" \/ Email(id) = SUPER_ADMIN_EMAIL THEN "403"
  ELSE IF users[id].role = "admin" /\ CallerRole(caller) # "superadmin" THEN "403"
  ELSE IF ~dbOk THEN "500"
  ELSE "200"

\* the project filters {"client.email": ...} / {"developer.email": ...} name a
\* field of a referenced document, which no stored project has: none matches
AdminDeleteUser(caller, id, dbOk, notifyOk) ==
  /\ UserExists(caller)
  /\ LET code == DeleteUserStatus(caller, id, dbOk)
         us == IF code = "200" THEN [users EXCEPT ![id].exists = FALSE] ELSE users
         pushed == code = "200" /\ PushNotificationOk(us, Email(id), AccountDeletedText, notifyOk)
         n == NewNotification(notifSeq + 1, PushNotificationDoc(us, Email(id), AccountDeletedText))
     IN /\ pushed => notifSeq < MaxNotifs
        /\ users' = us
        /\ notifications' = IF pushed THEN notifications \cup {n} ELSE notifications
        /\ notifSeq' = IF pushed THEN notifSeq + 1 ELSE notifSeq
        /\ out' = IF code # "200" THEN <<>>
                  ELSE (IF pushed THEN PushNotificationEmits(conns, Email(id), AccountDeletedText)
                        ELSE <<>>)
                       \o <<EmitAll(conns, "user:deleted", id)>>
        /\ last' = [op |-> "adminDeleteUser", conn |-> 0, user |-> caller,
                    req |-> [id |-> id], status |-> code]
  /\ gateway = "up"
  /\ UNCHANGED <<requirements, hires>>
  /\ UNCHANGED <<conns, onlineUsers, messages, tasks, projects, gateway, broadcasts>>

\* DELETE /api/admin/projects/:id: the emails it notifies, client first
DeleteProjectRecipients(p) ==
  (IF UserExists(p.client) THEN <<Email(p.client)>> ELSE <<>>)
    \o (IF UserExists(p.developer) THEN <<Email(p.developer)>> ELSE <<>>)

\* pushNotification for the first k recipients: documents and emits
RECURSIVE PushAll(_, _, _, _)
PushAll(cs, emails, text, firstId) ==
  IF emails = <<>> THEN [docs |-> {}, emits |-> <<>>]
  ELSE LET rest == PushAll(cs, Tail(emails), text, firstId + 1)
       IN [docs |-> {NewNotification(firstId, PushNotificationDoc(users, Head(emails), text))}
                      \cup rest.docs,
           emits |-> PushNotificationEmits(cs, Head(emails), text) \o rest.emits]

\* failAfter = number of pushNotification calls that succeed before one throws
\* (a number above the recipients' count: none throws)
AdminDeleteProject(caller, pid, failAfter) ==
  /\ UserExists(caller)
  /\ LET ps == {p \in projects : p.id = pid}
         p == CHOOSE q \in ps : TRUE
         rcpt == DeleteProjectRecipients(p)
         k == IF failAfter < Len(rcpt) THEN failAfter ELSE Len(rcpt)
         pushed == PushAll(conns, SubSeq(rcpt, 1, k), ProjectDeletedText, notifSeq + 1)
         code == IF ~IsAdminCaller(caller) THEN "403"
                 ELSE IF ps = {} THEN "404"
                 ELSE IF failAfter < Len(rcpt) THEN "500" ELSE "200"
     IN /\ (code \in {"200", "500"} /\ k > 0) => notifSeq < MaxNotifs
        /\ IF code \in {"200", "500"}
           THEN /\ projects' = projects \ {p}
                /\ notifications' = notifications \cup pushed.docs
                /\ notifSeq' = notifSeq + k
                /\ out' = pushed.emits \o
                          (IF code = "200"
                           THEN <<EmitAll(conns, "project:deleted", pid)>> ELSE <<>>)
           ELSE /\ UNCHANGED <<projects, notifications, notifSeq>>
                /\ out' = <<>>
        /\ last' = [op |-> "adminDeleteProject", conn |-> 0, user |-> caller,
                    req |-> [id |-> pid, failAfter |-> failAfter], status |-> code]
  /\ gateway = "up"
  /\ UNCHANGED <<requirements, hires>>
  /\ UNCHANGED <<users, conns, onlineUsers, messages, tasks, gateway, broadcasts>>

(* ------------------- notifications: read and delete ------------------- *)
\* an :id parameter that does not cast to an ObjectId
BadNotifId == -1

\* Notification.findById(id): the stored documents with that id (none or one)
FindNotification(id) == {n \in notifications : n.id = id}

\* PATCH /api/notifications/:id/read: the response status
MarkReadStatus(caller, id, dbOk) ==
  IF id = BadNotifId THEN "500"
  ELSE IF FindNotification(id) = {} THEN "404"
  ELSE IF (CHOOSE n \in FindNotification(id) : TRUE).user # caller THEN "403"
  ELSE IF ~dbOk THEN "500"
  ELSE "200"

\* mutant: the event goes out although the caller is not the owner
MarkReadEmits_Always(cs, caller, code, notif) ==
  <<EmitTo(cs, caller, "notification:read", notif)>>

\* PATCH /api/notifications/:id/read: the emit after the save
MarkReadEmits(cs, caller, code, notif) ==
  IF code = "200" THEN <<EmitTo(cs, caller, "notification:read", notif)>> ELSE <<>>

MarkRead(caller, id, dbOk) ==
  /\ UserExists(caller)
  /\ LET code == MarkReadStatus(caller, id, dbOk)
         n == CHOOSE m \in FindNotification(id) : TRUE
         notif == [n EXCEPT !.read = TRUE]
     IN /\ notifications' = IF code = "200" THEN (notifications \ {n}) \cup {notif}
                             ELSE notifications
        /\ out' = IF FindNotification(id) = {} THEN <<>>
                  ELSE MarkReadEmits(conns, caller, code, notif)
        /\ last' = [op |-> "markRead", conn |-> 0, user |-> caller,
                    req |-> [id |-> id, dbOk |-> dbOk], status |-> code]
  /\ gateway = "up"
  /\ UNCHANGED <<requirements, hires>>
  /\ UNCHANGED <<users, conns, onlineUsers, messages, tasks, notifSeq, projects, gateway, broadcasts>>

\* DELETE /api/notifications/:id: the response status
DeleteNotificationStatus(caller, id, dbOk) ==
  IF id = BadNotifId THEN "500"
  ELSE IF FindNotification(id) = {} THEN "404"
  ELSE IF (CHOOSE n \in FindNotification(id) : TRUE).user # caller /\ ~IsAdminCaller(caller)
    THEN "403"
  ELSE IF ~dbOk THEN "500"
  ELSE "200"

DeleteNotification(caller, id, dbOk) ==
  /\ UserExists(caller)
  /\ LET code == DeleteNotificationStatus(caller, id, dbOk)
         n == CHOOSE m \in FindNotification(id) : TRUE
     IN /\ notifications' = IF code = "200" THEN notifications \ {n} ELSE notifications
        /\ out' = IF code = "200"
                  THEN <<EmitTo(conns, n.user, "notification:deleted", [id |-> n.id])>>
                  ELSE <<>>
        /\ last' = [op |-> "deleteNotification", conn |-> 0, user |-> caller,
                    req |-> [id |-> id, dbOk |-> dbOk], status |-> code]
  /\ gateway = "up"
  /\ UNCHANGED <<requirements, hires>>
  /\ UNCHANGED <<users, conns, onlineUsers, messages, tasks, notifSeq, projects, gateway, broadcasts>>

\* DELETE /api/admin/notifications/:id: the response status
AdminDeleteNotificationStatus(caller, id, dbOk) ==
  IF ~IsAdminCaller(caller) THEN "403"
  ELSE IF id = BadNotifId \/ ~dbOk THEN "500"
  ELSE IF FindNotification(id) = {} THEN "404"
  ELSE "200"

AdminDeleteNotification(caller, id, dbOk) ==
  /\ UserExists(caller)
  /\ LET code == AdminDeleteNotificationStatus(caller, id, dbOk)
     IN /\ notifications' = IF code = "200" THEN notifications \ FindNotification(id)
                             ELSE notifications
        /\ out' = IF code = "200" THEN <<EmitAll(conns, "notification:deleted", id)>>
                  ELSE <<>>
        /\ last' = [op |-> "adminDeleteNotification", conn |-> 0, user |-> caller,
                    req |-> [id |-> id, dbOk |-> dbOk], status |-> code]
  /\ gateway = "up"
  /\ UNCHANGED <<requirements, hires>>
  /\ UNCHANGED <<users, conns, onlineUsers, messages, tasks, notifSeq, projects, gateway, broadcasts>>

(* ---------------------- GET /api/chat/messages/:id --------------------- *)
\* mutant: only the messages the caller sent
ConversationIds_SentOnly(me, other) ==
  {i \in DOMAIN messages : messages[i].sender = me /\ messages[i].receiver = other}

\* Message.find({$or: [{sender: me, receiver: other}, {sender: other, receiver: me}]})
ConversationIds(me, other) ==
  {i \in DOMAIN messages :
     \/ messages[i].sender = me /\ messages[i].receiver = other
     \/ messages[i].sender = other /\ messages[i].receiver = me}

\* .sort({ createdAt: 1 }): oldest first (ids grow with creation)
RECURSIVE SortByCreatedAsc(_)
SortByCreatedAsc(S) ==
  IF S = {} THEN <<>>
  ELSE LET oldest == CHOOSE i \in S : \A j \in S : i <= j
       IN <<oldest>> \o SortByCreatedAsc(S \ {oldest})

\* the populated, formatted history of the conversation
GetMessagesResult(me, other) ==
  LET ids == SortByCreatedAsc(ConversationIds(me, other))
  IN [k \in DOMAIN ids |-> FindMessagePopulated(ids[k])]

GetMessages(caller, receiverId, dbOk) ==
  /\ UserExists(caller)
  /\ LET ok == receiverId \in ObjectIds /\ dbOk
     IN last' = [op |-> "getMessages", conn |-> 0, user |-> caller,
                 req |-> [receiverId |-> receiverId, dbOk |-> dbOk],
                 status |-> IF ok THEN "200" ELSE "500",
                 resp |-> IF ok THEN GetMessagesResult(caller, receiverId) ELSE <<>>]
  /\ out' = <<>>
  /\ gateway = "up"
  /\ UNCHANGED <<requirements, hires>>
  /\ UNCHANGED <<users, conns, onlineUsers, messages, tasks, notifications, notifSeq, projects,
                 gateway, broadcasts>>

(* --------------------------- requirements.js -------------------------- *)
\* const status = action === "accept" ? "accepted" : "rejected"
RequirementStatus(action) == IF action = "accept" THEN "accepted" ELSE "rejected"

\* mutant: the update matches the requirement whatever its status
FindPendingRequirement_AnyStatus(reqs, id) == IF id \in RequirementIds THEN id ELSE None

\* the filter { _id: id, status: "pending" } of findOneAndUpdate: the id of the
\* document it matches, or None
FindPendingRequirement(reqs, id) ==
  IF id \in RequirementIds /\ reqs[id].status = "pending" THEN id ELSE None

\* an accept whose requirement is updated and whose Project.create is pending
ProjectTask(caller, id) == [op |-> "createProject", caller |-> caller, id |-> id]

\* ids Project.create can give to a new project
NewProjectIds == {"p2", "p3"}
UnusedProjectIds == {i \in NewProjectIds : \A p \in projects : p.id # i}

\* PUT /api/requirements/:id/:action up to the resolution of findOneAndUpdate,
\* the update itself being one atomic operation of the store
RequirementAct(caller, id, action) ==
  /\ UserExists(caller)
  /\ LET status == RequirementStatus(action)
         hit == FindPendingRequirement(requirements, id)
         code == IF CallerRole(caller) # "developer" THEN "403"
                 ELSE IF id \notin RequirementIds \cup {GhostRequirement} THEN "500"
                 ELSE IF hit = None THEN (IF status = "accepted" THEN "500" ELSE "200")
                 ELSE IF status = "rejected" THEN "200"
                 ELSE IF ~UserExists(requirements[hit].client) THEN "500"
                 ELSE "updated"
         written == CallerRole(caller) = "developer" /\ hit # None
     IN /\ requirements' = IF written
                           THEN [requirements EXCEPT ![hit].status = status,
                                                     ![hit].developer = caller]
                           ELSE requirements
        /\ tasks' = IF code = "updated" THEN tasks \cup {ProjectTask(caller, hit)} ELSE tasks
        /\ last' = [op |-> "requirementAct", conn |-> 0, user |-> caller,
                    req |-> [id |-> id, action |-> action], status |-> code]
  /\ out' = <<>>
  /\ gateway = "up"
  /\ UNCHANGED <<users, conns, onlineUsers, messages, notifications, notifSeq, projects,
                 gateway, broadcasts, hires>>

\* the rest of an accept: Project.create and the response
RequirementCreateProject(t, dbOk) ==
  /\ t \in tasks
  /\ DOMAIN t = {"op", "caller", "id"}
  /\ UnusedProjectIds # {}
  /\ tasks' = tasks \ {t}
  /\ projects' = IF dbOk
                 THEN projects \cup
                        {[id |-> CHOOSE i \in UnusedProjectIds : TRUE,
                          client |-> requirements[t.id].client,
                          developer |-> requirements[t.id].developer,
                          title |-> requirements[t.id].title, status |-> "in-progress",
                          requirements |-> {t.id}]}
                 ELSE projects
  /\ last' = [op |-> "requirementCreateProject", conn |-> 0, user |-> t.caller,
              req |-> [id |-> t.id, dbOk |-> dbOk], status |-> IF dbOk THEN "200" ELSE "500"]
  /\ out' = <<>>
  /\ gateway = "up"
  /\ UNCHANGED <<users, conns, onlineUsers, messages, notifications, notifSeq, gateway,
                 broadcasts, requirements, hires>>

(* ------------------------------- hire.js ------------------------------ *)
\* projectSchema: the enum of status
ProjectStatuses == {"pending", "in-progress", "completed", "cancelled"}

\* projectSchema validation: title and client required, status within the
\* enum, every element of requirements castable to an ObjectId
ProjectValid(doc) ==
  /\ doc.title # None
  /\ doc.client \in ObjectIds
  /\ doc.status \in ProjectStatuses
  /\ doc.requirements \subseteq RequirementIds \cup {GhostRequirement}

\* the user User.findOne({ email }) returns, or None
UserByEmail(email) ==
  LET owners == {u \in UserIds : users[u].exists /\ Email(u) = email}
  IN IF owners = {} THEN None ELSE CHOOSE u \in owners : TRUE

\* the project document PATCH /api/hire saves on accept: the project found
\* by hireRequestId with status set to "ongoing", or a new one
HireProjectDoc(id) ==
  LET h == hires[id]
      found == {p \in projects : "hireRequestId" \in DOMAIN p /\ p.hireRequestId = id}
  IN IF found # {}
     THEN [(CHOOSE p \in found : TRUE) EXCEPT !.status = "ongoing"]
     ELSE [id |-> CHOOSE i \in NewProjectIds : TRUE, title |-> h.projectTitle,
           client |-> UserByEmail(h.clientEmail), developer |-> UserByEmail(h.developerEmail),
           requirements |-> {h.requirements}, status |-> "ongoing", hireRequestId |-> id]

HireAcceptedText == <<"Your hire request was accepted">>
HireRejectedText == <<"Your hire request was rejected">>

\* the document PATCH /api/hire hands to Notification.create: no user field
HireNotificationDoc(id, action) ==
  [user |-> None, userEmail |-> hires[id].clientEmail,
   message |-> IF action = "accept" THEN HireAcceptedText ELSE HireRejectedText,
   type |-> "system", read |-> FALSE]

\* PATCH /api/hire: response status and the writes done before it; failAt
\* names the store call that fails for a reason of the store, if any: "save"
PatchHireOutcome(caller, b, failAt) ==
  LET res(code, saved, project, notified) ==
        [code |-> code, saved |-> saved, project |-> project, notified |-> notified]
  IN IF b.requestId = None \/ b.action \notin {"accept", "reject"}
       THEN res("400", FALSE, FALSE, FALSE)
     ELSE IF b.requestId \notin HireIds \cup {GhostHire} THEN res("500", FALSE, FALSE, FALSE)
     ELSE IF b.requestId \notin HireIds THEN res("404", FALSE, FALSE, FALSE)
     ELSE IF /\ CallerRole(caller) \notin {"admin", "superadmin"}
             /\ hires[b.requestId].developerEmail # Email(caller)
       THEN res("403", FALSE, FALSE, FALSE)
     ELSE IF failAt = "save" THEN res("500", FALSE, FALSE, FALSE)
     ELSE IF /\ b.action = "accept"
             /\ \/ UserByEmail(hires[b.requestId].clientEmail) = None
                \/ UserByEmail(hires[b.requestId].developerEmail) = None
       THEN res("400", TRUE, FALSE, FALSE)
     ELSE IF b.action = "accept" /\ ~ProjectValid(HireProjectDoc(b.requestId))
       THEN res("500", TRUE, FALSE, FALSE)
     ELSE IF ~NotificationValid(HireNotificationDoc(b.requestId, b.action))
       THEN res("500", TRUE, b.action = "accept", FALSE)
     ELSE res("200", TRUE, b.action = "accept", TRUE)

\* PATCH /api/hire
PatchHire(caller, b, failAt) ==
  /\ UserExists(caller)
  /\ LET r == PatchHireOutcome(caller, b, failAt)
     IN /\ r.notified => notifSeq < MaxNotifs
        /\ hires' = IF r.saved
                    THEN [hires EXCEPT ![b.requestId].status = RequirementStatus(b.action)]
                    ELSE hires
        /\ projects' = IF r.project
                       THEN {p \in projects : p.id # HireProjectDoc(b.requestId).id}
                              \cup {HireProjectDoc(b.requestId)}
                       ELSE projects
        /\ IF r.notified
           THEN /\ notifications' = notifications \cup
                     {NewNotification(notifSeq + 1, HireNotificationDoc(b.requestId, b.action))}
                /\ notifSeq' = notifSeq + 1
           ELSE UNCHANGED <<notifications, notifSeq>>
        /\ last' = [op |-> "patchHire", conn |-> 0, user |-> caller,
                    req |-> [requestId |-> b.requestId, action |-> b.action, failAt |-> failAt],
                    status |-> r.code]
  /\ out' = <<>>
  /\ gateway = "up"
  /\ UNCHANGED <<users, conns, onlineUsers, messages, tasks, gateway, broadcasts, requirements>>

(* ------------------------------ users.js ------------------------------ *)
\* req.user.role as the authenticate middleware of users.js sets it: the stored role
AuthenticatedRole(u) == users[u].role

\* PATCH /api/users/:id/role: the response status
PatchRoleStatus(caller, id, role, dbOk) ==
  IF AuthenticatedRole(caller) \notin {"admin", "superadmin"} THEN "403"
  ELSE IF role \notin {"admin", "developer", "client"} THEN "400"
  ELSE IF id \notin ObjectIds THEN "500"
  ELSE IF ~UserExists(id) THEN "404"
  ELSE IF users[id].role = "superadmin" /\ AuthenticatedRole(caller) # "superadmin" THEN "403"
  ELSE IF users[id].role = "admin" /\ AuthenticatedRole(caller) # "superadmin" THEN "403"
  ELSE IF role = "admin" /\ AuthenticatedRole(caller) # "superadmin" THEN "403"
  ELSE IF ~dbOk THEN "500"
  ELSE "200"

UsersPatchRole(caller, id, role, dbOk) ==
  /\ UserExists(caller)
  /\ LET code == PatchRoleStatus(caller, id, role, dbOk)
     IN /\ users' = IF code = "200" THEN [users EXCEPT ![id].role = role] ELSE users
        /\ out' = IF code = "200"
                  THEN <<EmitAll(conns, "user:updated",
                                 [_id |-> id, name |-> Name(id), email |-> Email(id),
                                  role |-> role])>>
                  ELSE <<>>
        /\ last' = [op |-> "usersPatchRole", conn |-> 0, user |-> caller,
                    req |-> [id |-> id, role |-> role, dbOk |-> dbOk], status |-> code]
  /\ gateway = "up"
  /\ UNCHANGED <<requirements, hires>>
  /\ UNCHANGED <<conns, onlineUsers, messages, tasks, notifications, notifSeq, projects, gateway, broadcasts>>

(* --------------------------- specifications --------------------------- *)
\* admission and presence
Next ==
  \/ \E h \in Handshakes, dbOk \in BOOLEAN : Connect(h, dbOk)
  \/ \E c \in 1..MaxConns : Disconnect(c)

\* chat: admitted connections of u1 and u2 exchanging messages
ChatHandshakes ==
  {[auth |-> [sub |-> u, key |-> "S", expired |-> FALSE], socketToken |-> NoToken,
    token |-> NoToken] : u \in {"u1", "u2"}}

NextChat ==
  \/ \E h \in ChatHandshakes : Connect(h, TRUE)
  \/ \E c \in 1..MaxConns : Disconnect(c)
  \/ \E c \in 1..MaxConns, r \in SendRequests : SendMessage(c, r.p, r.dbOk)
  \/ \E t \in tasks, dbOk \in BOOLEAN : SendMessageDeliver(t, dbOk)

SpecChat == Init /\ [][NextChat]_vars

\* notify and fetch: at most FanoutConns connections of u2 and u3, POST and GET /api/notifications
NotifyHandshakes ==
  {[auth |-> NoToken, socketToken |-> [sub |-> u, key |-> "S", expired |-> FALSE],
    token |-> NoToken] : u \in {"u2", "u3"}}
NotifyBodies ==
  [user : {"u2", GhostId}, message : {<<"a">>}, type : {None}]
    \cup [user : {"u2"}, message : {<<" ", "b">>}, type : {"project"}]
    \cup [user : {"u2"}, message : {Missing, <<>>, <<" ">>}, type : {None}]
    \cup [user : {BadId, None}, message : {<<"a">>}, type : {None}]
    \cup [user : {"u2"}, message : {<<"a">>}, type : {"bogus"}]
NotifyQueries == [page : {0, 1, 2}, limit : {0, 1}]

NextNotify ==
  \/ \E h \in NotifyHandshakes : Len(conns) < FanoutConns /\ Connect(h, TRUE)
  \/ \E c \in 1..MaxConns : Disconnect(c)
  \/ \E caller \in {"u1", "u3"}, b \in NotifyBodies, dbOk \in BOOLEAN :
        PostNotification(caller, b, dbOk)
  \/ \E caller \in {"u2", "u3"}, q \in NotifyQueries : GetNotifications(caller, q)

SpecNotify == Init /\ [][NextNotify]_vars

\* fan-out: at most FanoutConns connections of u2 and u3, and every REST handler
\* that creates notifications
FanoutBodies == [user : {"u2"}, message : {<<"a">>}, type : {None}]
RoleBodies == [id : {"u2"}, role : {"admin", "client"}]

NextFanout ==
  \/ \E h \in NotifyHandshakes : Len(conns) < FanoutConns /\ Connect(h, TRUE)
  \/ \E c \in 1..MaxConns : Disconnect(c)
  \/ \E caller \in {"u1"}, b \in FanoutBodies, dbOk \in BOOLEAN :
        PostNotification(caller, b, dbOk)
  \/ \E caller \in {"u3"}, pid \in {"p1"}, failAt \in {None, "dev"} :
        CompleteProject(caller, pid, failAt)
  \/ \E caller \in {"u1"}, b \in RoleBodies, failAt \in {None, "notify"} :
        AdminUpdateRole(caller, b, failAt)
  \/ \E caller \in {"u1"}, id \in {"u2"}, notifyOk \in BOOLEAN :
        AdminDeleteUser(caller, id, TRUE, notifyOk)
  \/ \E caller \in {"u1"}, pid \in {"p1"}, failAfter \in 1..2 :
        AdminDeleteProject(caller, pid, failAfter)

SpecFanout == Init /\ [][NextFanout]_vars

\* persistence before broadcast: connections of u2, one chat message, and every
\* REST handler that creates notifications
PersistHandshakes == {h \in NotifyHandshakes : h.socketToken.sub = "u2"}
PersistRequests ==
  {r \in SendRequests : r.p.to = "u2" /\ r.p.tempId = "t1" /\ r.p.message = <<"a">>}

NextPersist ==
  \/ \E h \in PersistHandshakes : Len(conns) < FanoutConns /\ Connect(h, TRUE)
  \/ \E c \in 1..MaxConns : Disconnect(c)
  \/ \E c \in 1..MaxConns, r \in PersistRequests : SendMessage(c, r.p, r.dbOk)
  \/ \E t \in tasks, dbOk \in BOOLEAN : SendMessageDeliver(t, dbOk)
  \/ \E caller \in {"u1"}, b \in FanoutBodies, dbOk \in BOOLEAN :
        PostNotification(caller, b, dbOk)
  \/ \E caller \in {"u3"}, pid \in {"p1"}, failAt \in {None, "client", "dev"} :
        CompleteProject(caller, pid, failAt)
  \/ \E caller \in {"u1"}, b \in RoleBodies, failAt \in {None, "notify"} :
        AdminUpdateRole(caller, b, failAt)
  \/ \E caller \in {"u1"}, id \in {"u2"}, notifyOk \in BOOLEAN :
        AdminDeleteUser(caller, id, TRUE, notifyOk)
  \/ \E caller \in {"u1"}, pid \in {"p1"}, failAfter \in 0..2 :
        AdminDeleteProject(caller, pid, failAfter)

SpecPersist == Init /\ [][NextPersist]_vars


\* read and delete: at most FanoutConns connections of u2 and u3, one stored
\* notification for u2, and the handlers that mark it read or remove it
NotifIdSamples == {BadNotifId, 1, 2}

NextSync ==
  \/ \E h \in NotifyHandshakes : Len(conns) < FanoutConns /\ Connect(h, TRUE)
  \/ \E c \in 1..MaxConns : Disconnect(c)
  \/ \E caller \in {"u1"}, b \in FanoutBodies : PostNotification(caller, b, TRUE)
  \/ \E caller \in {"u2", "u3"}, id \in NotifIdSamples, dbOk \in BOOLEAN :
        MarkRead(caller, id, dbOk)
  \/ \E caller \in UserIds, id \in NotifIdSamples, dbOk \in BOOLEAN :
        DeleteNotification(caller, id, dbOk)
  \/ \E caller \in {"u1", "u3"}, id \in NotifIdSamples, dbOk \in BOOLEAN :
        AdminDeleteNotification(caller, id, dbOk)

SpecSync == Init /\ [][NextSync]_vars


\* role changes: at most FanoutConns connections of u2 and u3, and the two
\* handlers that change a user's role
RoleChangeBodies == [id : {"u2", "u3"}, role : {"admin", "client"}]

NextRoles ==
  \/ \E h \in NotifyHandshakes : Len(conns) < FanoutConns /\ Connect(h, TRUE)
  \/ \E c \in 1..MaxConns : Disconnect(c)
  \/ \E caller \in {"u1", "u2"}, b \in RoleChangeBodies, failAt \in {None, "save", "notify"} :
        AdminUpdateRole(caller, b, failAt)
  \/ \E caller \in {"u1", "u2"}, id \in {"u1", "u3"}, role \in {"admin", "developer", "bogus"},
         dbOk \in BOOLEAN :
        UsersPatchRole(caller, id, role, dbOk)

SpecRoles == Init /\ [][NextRoles]_vars


\* containment: connections of u1 and u2, sendMessage with object payloads and
\* with arguments that are no object
ContainPayloads == {p \in Payloads : p.tempId = "t1" /\ p.message \in {<<"a">>, Missing}}

NextContain ==
  \/ \E h \in ChatHandshakes : Connect(h, TRUE)
  \/ \E c \in 1..MaxConns : Disconnect(c)
  \/ \E c \in 1..MaxConns, p \in ContainPayloads, dbOk \in BOOLEAN : SendMessage(c, p, dbOk)
  \/ \E t \in tasks, dbOk \in BOOLEAN : SendMessageDeliver(t, dbOk)
  \/ \E c \in 1..MaxConns, arg \in RawArgs, mode \in UnhandledRejectionModes :
        SendMessageRaw(c, arg, mode)

SpecContain == Init /\ [][NextContain]_vars


\* history: connections of u1 and u2, messages between them, the history
\* fetch, and the removal of u2's account
HistoryPayloads == [to : {"u1", "u2"}, message : {<<"a">>, <<" ", "b">>}, tempId : {"t1"}]

NextHistory ==
  \/ \E h \in ChatHandshakes : Len(conns) < FanoutConns /\ Connect(h, TRUE)
  \/ \E c \in 1..MaxConns : Disconnect(c)
  \/ \E c \in 1..MaxConns, p \in HistoryPayloads : SendMessage(c, p, TRUE)
  \/ \E t \in tasks, dbOk \in BOOLEAN : SendMessageDeliver(t, dbOk)
  \/ \E caller \in {"u1", "u2"}, receiverId \in {"u1", "u2", GhostId, BadId}, dbOk \in BOOLEAN :
        GetMessages(caller, receiverId, dbOk)
  \/ \E caller \in {"u1"}, id \in {"u2"} : AdminDeleteUser(caller, id, TRUE, TRUE)

SpecHistory == Init /\ [][NextHistory]_vars


\* frame: at most FanoutConns connections of u2 and u3 with every handler that
\* is not a connect or disconnect: sendMessage with any argument, the
\* notification operations, the REST handlers that broadcast, the fetches
NextFrame ==
  \/ \E h \in NotifyHandshakes : Len(conns) < FanoutConns /\ Connect(h, TRUE)
  \/ \E c \in 1..MaxConns : Disconnect(c)
  \/ \E c \in 1..MaxConns, r \in PersistRequests : SendMessage(c, r.p, r.dbOk)
  \/ \E t \in tasks : SendMessageDeliver(t, TRUE)
  \/ \E c \in 1..MaxConns, arg \in {"undefined", "number"}, mode \in UnhandledRejectionModes :
        SendMessageRaw(c, arg, mode)
  \/ \E caller \in {"u1"}, b \in FanoutBodies : PostNotification(caller, b, TRUE)
  \/ \E caller \in {"u2"}, q \in {[page |-> 0, limit |-> 0]} : GetNotifications(caller, q)
  \/ \E caller \in {"u2"}, id \in {1} : MarkRead(caller, id, TRUE)
  \/ \E caller \in {"u2"}, id \in {1} : DeleteNotification(caller, id, TRUE)
  \/ \E caller \in {"u1"}, id \in {1} : AdminDeleteNotification(caller, id, TRUE)
  \/ \E caller \in {"u3"}, pid \in {"p1"} : CompleteProject(caller, pid, None)
  \/ \E caller \in {"u1"}, b \in RoleBodies : AdminUpdateRole(caller, b, None)
  \/ \E caller \in {"u1"}, id \in {"u3"}, role \in {"client"} : UsersPatchRole(caller, id, role, TRUE)
  \/ \E caller \in {"u1"}, id \in {"u2"} : AdminDeleteUser(caller, id, TRUE, TRUE)
  \/ \E caller \in {"u1"}, pid \in {"p1"} : AdminDeleteProject(caller, pid, 2)
  \/ \E caller \in {"u3"}, receiverId \in {"u2"} : GetMessages(caller, receiverId, TRUE)

SpecFrame == Init /\ [][NextFrame]_vars


\* admins: concurrent requests of the superadmin to the two role endpoints,
\* update-role split at the await between its count and its save
NextAdmins ==
  \/ \E caller \in {"u1"}, b \in RoleChangeBodies : AdminUpdateRoleCheck(caller, b)
  \/ \E t \in tasks, failAt \in {None, "save", "notify"} : AdminUpdateRoleSave(t, failAt)
  \/ \E caller \in {"u1", "u2"}, id \in {"u2", "u3"}, role \in {"admin", "developer"} :
        UsersPatchRole(caller, id, role, TRUE)

SpecAdmins == Init /\ [][NextAdmins]_vars


\* requirements: u3 and, once the superadmin has made them one, u2 are
\* developers who accept or reject the same requirement concurrently
NextReqs ==
  \/ \E caller \in {"u1"}, id \in {"u2"}, role \in {"developer"} :
        UsersPatchRole(caller, id, role, TRUE)
  \/ \E caller \in UserIds, id \in RequirementIds \cup {GhostRequirement, BadId},
         action \in {"accept", "reject"} :
        RequirementAct(caller, id, action)
  \/ \E t \in tasks, dbOk \in BOOLEAN : RequirementCreateProject(t, dbOk)

SpecReqs == Init /\ [][NextReqs]_vars


\* hire: every user answering the hire request, with the admin deletion of
\* the client
HireBodies == [requestId : HireIds \cup {GhostHire, BadId, None},
               action : {"accept", "reject", "cancel"}]

NextHire ==
  \/ \E caller \in UserIds, b \in HireBodies, failAt \in {None, "save"} :
        PatchHire(caller, b, failAt)
  \/ \E caller \in {"u1"}, id \in {"u2"} : AdminDeleteUser(caller, id, TRUE, TRUE)

SpecHire == Init /\ [][NextHire]_vars

Spec == Init /\ [][Next]_vars
(* ------------------------------- claims -------------------------------- *)
LiveConnsOf(u) == {c \in DOMAIN conns : conns[c].st = "live" /\ conns[c].user = u}
OutEvents(ev) == {i \in DOMAIN out : out[i].ev = ev}

\* a credential that is missing, signed with no accepted secret, expired, or
\* whose subject has no user record
CredentialBad(token) ==
  \/ token = NoToken
  \/ token.key \notin {"S", "J"}
  \/ token.expired
  \/ token.sub \notin {u \in UserIds : users[u].exists}

C2_RejectedIsInert ==
  /\ (last.op = "connect" /\ CredentialBad(last.req.token)) =>
        /\ last.status # "ok"
        /\ conns[last.conn].st = "rejected"
        /\ out = <<>>
  /\ \A c \in DOMAIN conns :
        conns[c].st = "rejected" =>
          /\ conns[c].rooms = {}
          /\ conns[c].handlers = {}
          /\ \A u \in UserIds : onlineUsers[u] # c
          /\ \A i \in DOMAIN out : c \notin out[i].rcpts

\* C2 witness: an event is delivered while a rejected connection exists
C2_Witness ==
  /\ \E c \in DOMAIN conns : conns[c].st = "rejected"
  /\ out # <<>>
  /\ out[1].rcpts # {}

\* C3: a connection attempt with a valid, unexpired credential of an existing
\* user (whose lookup the store answers) is admitted, bound to that user, and
\* enrolled in exactly the room named after the user id; an admitted connection
\* stays in exactly that room while it is live.
C3_AdmittedInOwnRoom ==
  /\ (last.op = "connect" /\ ~CredentialBad(last.req.token) /\ last.req.dbOk) =>
        /\ last.status = "ok"
        /\ conns[last.conn].st = "live"
        /\ conns[last.conn].user = last.req.token.sub
        /\ conns[last.conn].rooms = {last.req.token.sub}
  /\ \A c \in DOMAIN conns : conns[c].st = "live" => conns[c].rooms = {conns[c].user}

\* C3 witness: a second user has just been admitted
C3_Witness ==
  /\ last.op = "connect"
  /\ last.status = "ok"
  /\ \E c \in DOMAIN conns : conns[c].st = "live" /\ conns[c].user # conns[last.conn].user

\* C4: of the two receiveMessage emits of a sendMessage from S to R with
\* temporary id T, the one to R's room carries no tempId and the echo to S's
\* room carries tempId = T, also when R = S.
C4_TempIdOnEchoOnly ==
  (last.op = "deliver" /\ last.status = "emitted") =>
     /\ Len(out) = 2
     /\ out[1].ev = "receiveMessage" /\ out[2].ev = "receiveMessage"
     /\ out[1].room = last.req.to
     /\ out[1].payload.tempId = None
     /\ out[2].room = last.user
     /\ out[2].payload.tempId = last.req.tempId

\* C4 witness: a user's message to itself, with a tempId, reaches a connection
C4_Witness ==
  /\ last.op = "deliver"
  /\ last.status = "emitted"
  /\ last.req.to = last.user
  /\ last.req.tempId = "t1"
  /\ out[1].rcpts # {}

\* C5: the receiver broadcast reaches every live connection of the receiver and
\* the echo reaches every live connection of the sender.
C5_AllLiveConnections ==
  (last.op = "deliver" /\ last.status = "emitted") =>
     /\ LiveConnsOf(last.req.to) \subseteq out[1].rcpts
     /\ LiveConnsOf(last.user) \subseteq out[2].rcpts

\* C5 witness: the receiver has two live connections and the sender is another user
C5_Witness ==
  /\ last.op = "deliver"
  /\ last.status = "emitted"
  /\ last.req.to # last.user
  /\ Cardinality(LiveConnsOf(last.req.to)) >= 2

\* C6: admitting a further connection of a user who already has a live
\* connection emits no userOnline.
C6_OnlineOnlyOnFirst ==
  (last.op = "connect" /\ last.status = "ok"
     /\ LiveConnsOf(conns[last.conn].user) # {last.conn}) =>
     OutEvents("userOnline") = {}

\* C7: a disconnect emits userOffline exactly once when it leaves the user with
\* no live connection, and not at all while another connection is live.
C7_OfflineOnlyOnLast ==
  last.op = "disconnect" =>
     Cardinality(OutEvents("userOffline")) = IF LiveConnsOf(last.user) = {} THEN 1 ELSE 0

\* C8: onlineUsers has an entry for a user exactly when the user has a live
\* connection, and the entry is one of the user's live connections.
C8_RegistryMatchesLive ==
  \A u \in UserIds :
     /\ onlineUsers[u] # 0 <=> LiveConnsOf(u) # {}
     /\ onlineUsers[u] # 0 => onlineUsers[u] \in LiveConnsOf(u)

NotifyAccepted(req) ==
  /\ req.user \in ObjectIds
  /\ req.message # Missing
  /\ Trim(req.message) # <<>>
  /\ req.type = None \/ req.type \in NotificationTypes
  /\ req.dbOk

AddressedTo(payload) ==
  IF "user" \in DOMAIN payload THEN {payload.user}
  ELSE {u \in UserIds : Email(u) = payload.userEmail}

\* C10: every notification:new is received only by live connections of the
\* user it is addressed to.
C10_OnlyTargetReceives ==
  \A i \in OutEvents("notification:new") :
     \A u \in AddressedTo(out[i].payload) : out[i].rcpts \subseteq LiveConnsOf(u)

\* C11: every step that stores a new Notification for user U also emits, as a
\* global broadcast, an admin:notification:new whose payload carries the stored
\* notification and U, received by every connected socket.
C11_AdminBroadcastOnCreate ==
  [][\A n \in notifications' \ notifications :
       \E i \in DOMAIN out' :
          /\ out'[i].ev = "admin:notification:new"
          /\ out'[i].room = "*"
          /\ out'[i].payload = [notification |-> n, to |-> n.user]
          /\ out'[i].rcpts = AllSockets(conns)]_vars

\* C12: a mark-read request responds success only when the caller owns the
\* notification; a successful one sets read in the store and emits one
\* notification:read, carrying the stored record, to the owner's channel, where
\* every live connection of the owner receives it; any other mark-read request
\* (not the owner, no such notification, the store failing) leaves the store
\* unchanged and emits nothing.
C12_MarkReadOwnerOnly ==
  [][last'.op = "markRead" =>
       LET N == {n \in notifications : n.id = last'.req.id}
       IN IF last'.status = "200"
          THEN \E n \in N :
                 /\ n.user = last'.user
                 /\ notifications' = (notifications \ {n}) \cup {[n EXCEPT !.read = TRUE]}
                 /\ Len(out') = 1
                 /\ out'[1].ev = "notification:read"
                 /\ out'[1].room = n.user
                 /\ out'[1].payload = [n EXCEPT !.read = TRUE]
                 /\ out'[1].rcpts = {c \in DOMAIN conns :
                                       conns[c].st = "live" /\ conns[c].user = n.user}
          ELSE notifications' = notifications /\ out' = <<>>]_vars

\* C12 witness: the owner, with two live connections, has just marked its
\* notification read
C12_Witness ==
  /\ last.op = "markRead"
  /\ last.status = "200"
  /\ Len(out) = 1
  /\ Cardinality(out[1].rcpts) >= 2
  /\ \E n \in notifications : n.id = last.req.id /\ n.read

\* C13: every step of a notification delete handler that removes a notification
\* N emits notification:deleted, identifying N, to the channel of N's owner,
\* where exactly the owner's live connections receive it; a caller who is
\* neither N's owner nor an administrator removes nothing and emits nothing.
C13_DeletedToOwnerChannel ==
  [][last'.op \in {"deleteNotification", "adminDeleteNotification"} =>
       /\ \A n \in notifications \ notifications' :
            \E i \in DOMAIN out' :
               /\ out'[i].ev = "notification:deleted"
               /\ out'[i].room = n.user
               /\ out'[i].payload = [id |-> n.id]
               /\ out'[i].rcpts = {c \in DOMAIN conns :
                                     conns[c].st = "live" /\ conns[c].user = n.user}
       /\ (~IsAdminCaller(last'.user)
             /\ \A n \in notifications : n.id = last'.req.id => n.user # last'.user) =>
            notifications' = notifications /\ out' = <<>>]_vars

\* C14: every step that stores a new role for a user also emits user:updated,
\* carrying that user's new role, as a global broadcast received by every
\* connected socket.
C14_RoleChangeBroadcast ==
  [][\A u \in UserIds :
       users'[u].role # users[u].role =>
         \E i \in DOMAIN out' :
            /\ out'[i].ev = "user:updated"
            /\ out'[i].room = "*"
            /\ out'[i].payload._id = u
            /\ out'[i].payload.role = users'[u].role
            /\ out'[i].rcpts = AllSockets(conns)]_vars

\* C15: a step of a sendMessage handling in which the store fails (the create
\* of a valid document, or the re-read) emits nothing (no receiveMessage to
\* either channel, no error event), stores nothing, and leaves every
\* connection, the sender's included, admitted with its rooms and handlers.
C15_StoreFailureIsSilent ==
  [][((last'.op = "sendMessage" /\ last'.status = "error"
         /\ MessageValid(last'.req.to, last'.req.message))
      \/ (last'.op = "deliver" /\ last'.status = "error")) =>
       /\ out' = <<>>
       /\ messages' = messages
       /\ conns' = conns
       /\ onlineUsers' = onlineUsers
       /\ gateway' = "up"]_vars

\* C15 witness: the re-read has just failed for a message whose receiver and
\* sender both have a live connection, the sender's being the one that sent it
C15_Witness ==
  /\ last.op = "deliver"
  /\ last.status = "error"
  /\ out = <<>>
  /\ conns[last.conn].st = "live"
  /\ "sendMessage" \in conns[last.conn].handlers
  /\ last.req.to # last.user
  /\ LiveConnsOf(last.req.to) # {}

\* C16: a sendMessage whose payload has no `to`, or whose `message` is absent
\* or empty, stores no Message, starts no delivery and emits nothing.
C16_MalformedNotPersisted ==
  [][(last'.op = "sendMessage"
        /\ (last'.req.to = None \/ last'.req.message \in {Missing, <<>>})) =>
       /\ last'.status # "created"
       /\ messages' = messages
       /\ tasks' = tasks
       /\ out' = <<>>]_vars

\* C16 witness: a payload without message, addressed to a user with a live
\* connection, has just been dropped
C16_Witness ==
  /\ last.op = "sendMessage"
  /\ last.status = "error"
  /\ last.req.message = Missing
  /\ last.req.to \in UserIds
  /\ LiveConnsOf(last.req.to) # {}
  /\ messages = <<>>

\* C17: whatever argument a sendMessage event of an admitted connection
\* carries, its handling leaves the gateway process running, tears down no
\* connection (the emitting one included), and leaves the deliveries in
\* progress for other connections in progress.
C17_FailureContained ==
  [][last'.op \in {"sendMessage", "deliver"} =>
       /\ gateway' = "up"
       /\ conns' = conns
       /\ onlineUsers' = onlineUsers
       /\ \A t \in tasks : t.conn # last'.conn => t \in tasks']_vars

\* the broadcast record b is a message between users x and y
BroadcastBetween(b, x, y) == {messages[b.id].sender, messages[b.id].receiver} = {x, y}

C19_ArrivalOrder ==
  [][(last'.op = "deliver" /\ last'.status = "emitted") =>
       /\ \A t \in tasks : (t.conn = last'.conn /\ t.msgId < last'.req.msgId) => t \notin tasks'
       /\ conns[last'.conn].st = "live"]_vars

\* C20: a presented token that verifies under the socket secret or, failing
\* that, under the general secret is admitted for its subject (an existing
\* user, the store answering); this holds for both credentials login issues;
\* a token that verifies under neither secret is rejected with "Invalid socket
\* token".
C20_EitherSecretAdmits ==
  (last.op = "connect" /\ last.req.token # NoToken) =>
     LET token == last.req.token
         verifies == jwtVerify(token, SOCKET_SECRET) \/ jwtVerify(token, JWT_SECRET)
     IN /\ (verifies /\ UserExists(token.sub) /\ last.req.dbOk) =>
             last.status = "ok" /\ conns[last.conn].user = token.sub
        /\ (token \in {LoginToken(token.sub), LoginSocketToken(token.sub)}
              /\ UserExists(token.sub) /\ last.req.dbOk) => last.status = "ok"
        /\ ~verifies => last.status = "Invalid socket token"

\* C20 witness: the token login issues under the general secret, presented in
\* the cookie, has just been admitted through the fallback
C20_Witness ==
  /\ last.op = "connect"
  /\ last.status = "ok"
  /\ last.req.token = LoginToken(last.req.token.sub)
  /\ ~jwtVerify(last.req.token, SOCKET_SECRET)
  /\ conns[last.conn].st = "live"

\* C21: every live connection of a user is a member of the user's id channel
\* and of the user's email channel, and an event emitted to the email channel
\* of user U is received by exactly U's live connections, as one emitted to
\* U's id channel is.
C21_EmailChannelReaches ==
  /\ \A c \in DOMAIN conns :
        conns[c].st = "live" => {conns[c].user, Email(conns[c].user)} \subseteq conns[c].rooms
  /\ \A i \in DOMAIN out : \A u \in UserIds :
        out[i].room \in {u, Email(u)} => out[i].rcpts = LiveConnsOf(u)

\* C22: the email stored with a notification is the email of the
\* notification's target user, or null when that user cannot be resolved.
C22_TargetEmailStored ==
  \A n \in notifications :
     n.userEmail = (IF UserExists(n.user) THEN Email(n.user) ELSE None)

\* C23: onlineUsers and the rooms of every connection change only in connect
\* and disconnect steps; a connect changes only the entry of the admitted user
\* and enrols only the new connection, in channels of that user; a disconnect
\* changes only the entry of its user and the memberships of the connection
\* that closed.
C23_PresenceFrame ==
  [][/\ last'.op \notin {"connect", "disconnect"} =>
          /\ onlineUsers' = onlineUsers
          /\ DOMAIN conns' = DOMAIN conns
          /\ \A c \in DOMAIN conns : conns'[c].rooms = conns[c].rooms
     /\ last'.op = "connect" =>
          /\ \A u \in UserIds : u # conns'[last'.conn].user => onlineUsers'[u] = onlineUsers[u]
          /\ \A c \in DOMAIN conns : conns'[c].rooms = conns[c].rooms
          /\ conns'[last'.conn].rooms \subseteq
                {conns'[last'.conn].user, Email(conns'[last'.conn].user)}
     /\ last'.op = "disconnect" =>
          /\ \A u \in UserIds : u # last'.user => onlineUsers'[u] = onlineUsers[u]
          /\ \A c \in DOMAIN conns : c # last'.conn => conns'[c].rooms = conns[c].rooms]_vars

\* C24: when a sendMessage has delivered, the record sent to the receiver and
\* the record echoed to the sender are the same read of the one persisted
\* Message (its id, its body, its sender and its receiver as populated from the
\* user collection); the receiver's copy has no tempId and the sender's echo
\* has the tempId of the request.
C24_BothFromPersisted ==
  (last.op = "deliver" /\ last.status = "emitted") =>
     /\ Len(out) = 2
     /\ out[1].ev = "receiveMessage" /\ out[2].ev = "receiveMessage"
     /\ out[1].payload.msg = out[2].payload.msg
     /\ out[1].payload.msg = FindMessagePopulated(last.req.msgId)
     /\ out[1].payload.msg.id = messages[last.req.msgId].id
     /\ out[1].payload.msg.message = messages[last.req.msgId].message
     /\ out[1].payload.msg.sender = Populate(messages[last.req.msgId].sender)
     /\ out[1].payload.msg.receiver = Populate(messages[last.req.msgId].receiver)
     /\ out[1].payload.tempId = None
     /\ out[2].payload.tempId = last.req.tempId

\* C24 witness: a delivered sendMessage that carried a tempId
C24_Witness ==
  /\ last.op = "deliver" /\ last.status = "emitted"
  /\ last.req.tempId # None
  /\ Len(out) = 2
  /\ out[2].payload.tempId = last.req.tempId

\* C25: every stored Message has delivered = false and read = false, in every
\* reachable state.
C25_FlagsStayFalse ==
  \A i \in DOMAIN messages : messages[i].delivered = FALSE /\ messages[i].read = FALSE

\* C25 witness: a message has been stored, delivered to the rooms and then
\* fetched with the conversation history
C25_Witness ==
  /\ Len(messages) >= 1
  /\ broadcasts # {}
  /\ last.op = "getMessages"
  /\ last.status = "200"

\* C26: no step of a role update takes the number of users with role admin
\* from at least one to zero.
C26_AdminRemains ==
  [][AdminCount >= 1 => AdminCount' >= 1]_vars

\* C27: no role-update request on either endpoint, from any caller, changes
\* the role of a user whose role is superadmin: the request is refused and the
\* user store is left as it was.
C27_SuperadminImmutable ==
  [][\A b \in {last'} :
        (/\ b.op \in {"adminUpdateRole", "usersPatchRole"}
         /\ b.req.id \in UserIds
         /\ users[b.req.id].exists
         /\ users[b.req.id].role = "superadmin")
        => (b.status # "200" /\ users' = users)]_vars

\* projects created for requirement r
ProjectsOf(r) == {p \in projects : "requirements" \in DOMAIN p /\ r \in p.requirements}

\* C28: across every interleaving of accepts and rejects, a requirement that
\* has left pending never changes again (so it leaves pending at most once and
\* keeps the one developer it was given), at most one Project exists for it,
\* and an accept or reject of a requirement that is not pending writes nothing.
C28_DecidedOnce ==
  /\ [](\A r \in RequirementIds : Cardinality(ProjectsOf(r)) <= 1)
  /\ [][/\ \A r \in RequirementIds :
              requirements[r].status # "pending" => requirements'[r] = requirements[r]
        /\ \A r \in RequirementIds :
              (/\ last'.op = "requirementAct"
               /\ last'.req.id = r
               /\ requirements[r].status # "pending")
              => (requirements' = requirements /\ projects' = projects /\ tasks' = tasks)]_vars

\* C28 witness: a developer's accept arrived after another developer had
\* accepted the requirement, whose project has been created
C28_Witness ==
  /\ last.op = "requirementAct"
  /\ last.req.id = "r1"
  /\ last.req.action = "accept"
  /\ last.status = "500"
  /\ requirements["r1"].status = "accepted"
  /\ requirements["r1"].developer # last.user
  /\ Cardinality(ProjectsOf("r1")) = 1

\* C29: a PATCH /api/hire that answers an error leaves the hire request and
\* the projects as they were, and one that changes the hire request's status
\* also stores the client's notification and answers success.
C29_HireAllOrNothing ==
  [][last'.op = "patchHire" =>
       /\ last'.status # "200" => (hires' = hires /\ projects' = projects)
       /\ hires' # hires =>
            /\ last'.status = "200"
            /\ \E n \in notifications' \ notifications :
                  n.userEmail = hires[last'.req.requestId].clientEmail]_vars

\* C30: an admin's successful DELETE /api/admin/users/:id stores a
\* Notification "Your account was deleted" with the deleted user's email and
\* emits notification:new before user:deleted.
C30_DeletionNotified ==
  [][(last'.op = "adminDeleteUser" /\ last'.status = "200") =>
       /\ \E n \in notifications' \ notifications :
             n.userEmail = Email(last'.req.id) /\ n.message = AccountDeletedText
       /\ \E i, j \in DOMAIN out' :
             /\ i < j
             /\ out'[i].ev = "notification:new"
             /\ out'[i].payload.userEmail = Email(last'.req.id)
             /\ out'[j].ev = "user:deleted"]_vars
====
